---- MODULE Spec2Model ----
(***************************************************************************)
(* Model of src/lib/editor/diff.ts: the structural diff of two ProseMirror *)
(* documents (patchDocumentNode / patchRemainNodes), the sentence-level    *)
(* text diff (patchTextNodes) and the diff annotator (createDiffNode).     *)
(*                                                                         *)
(* A node is a record [type, attrs, marks, content, text]; a text leaf has *)
(* type "text", an empty content and its text as a sequence of one-        *)
(* character strings.  attrs is a set of <<name, value>> pairs.  A         *)
(* normalized unit (ProsemirrorNodeLike) is [arr, nodes]: arr = TRUE for a *)
(* text-run group (a JS array), FALSE for a single node (nodes = <<n>>).   *)
(***************************************************************************)
EXTENDS Integers, Sequences, FiniteSets, TLC

VARIABLES
  pc,                 \* position of the running call
  oldNode, newNode,   \* arguments of the top-level patchDocumentNode call
  pdn,                \* locals of the top-level patchDocumentNode call
  pending,            \* patchRemainNodes calls patchDocumentNode still has to make
  rem,                \* locals of the running patchRemainNodes call
  result,             \* the returned tree, or NoResult
  textOld, textNew,   \* arguments of an exported patchTextNodes call
  textRes,            \* its return value
  annNode, annType,   \* arguments of an exported createDiffNode call
  annRes              \* its return value

vars == <<pc, oldNode, newNode, pdn, pending, rem, result,
          textOld, textNew, textRes, annNode, annType, annRes>>

-----------------------------------------------------------------------------
(* DiffType *)
Unchanged == 0
Deleted == -1
Inserted == 1

(* Generic sequence helpers (Array.prototype.slice / flat / indexOf). *)
Min(a, b) == IF a < b THEN a ELSE b

\* Array.prototype.slice(from, to) with 0-based, end-exclusive indices
Slice(s, from, to) ==
  IF to <= from THEN <<>> ELSE SubSeq(s, from + 1, Min(to, Len(s)))

RECURSIVE Flat(_)
Flat(ss) == IF ss = <<>> THEN <<>> ELSE Head(ss) \o Flat(Tail(ss))

-----------------------------------------------------------------------------
(* Marks.  The schema orders its mark types; Mark.setFrom, which            *)
(* schema.text and NodeType.create apply, sorts a mark list by that rank.   *)
MarkRank(t) ==
  CASE t = "bold" -> 0
    [] t = "diffMark" -> 1
    [] OTHER -> 2

RECURSIVE InsertByRank(_, _)
InsertByRank(sorted, m) ==
  IF sorted = <<>> THEN <<m>>
  ELSE IF MarkRank(sorted[Len(sorted)].type) <= MarkRank(m.type)
       THEN Append(sorted, m)
       ELSE Append(InsertByRank(SubSeq(sorted, 1, Len(sorted) - 1), m),
                   sorted[Len(sorted)])

RECURSIVE MarkSetFrom(_)
MarkSetFrom(marks) ==
  IF marks = <<>> THEN <<>>
  ELSE InsertByRank(MarkSetFrom(SubSeq(marks, 1, Len(marks) - 1)),
                    marks[Len(marks)])

\* schema.mark('diffMark', { type })
DiffMarkOf(type) == [type |-> "diffMark", attrs |-> {<<"type", type>>}]

\* createDiffMark: any other type throws 'type is not valid'
createDiffMark(type) ==
  IF type = Inserted THEN DiffMarkOf(type)
  ELSE IF type = Deleted THEN DiffMarkOf(type)
  ELSE [type |-> "Error: type is not valid", attrs |-> {}]

\* createTextNode: schema.text(content, marks)
createTextNode(content, marks) ==
  [type |-> "text", attrs |-> {}, marks |-> MarkSetFrom(marks),
   content |-> <<>>, text |-> content]

-----------------------------------------------------------------------------
(* Node accessors *)
getNodeAttributes(node) == node.attrs
getNodeMarks(node) == node.marks
getNodeChildren(node) == node.content
getNodeText(node) == node.text

\* isTextNode on a unit: an array is never a text node
isTextNode(u) == IF u.arr THEN FALSE ELSE u.nodes[1].type = "text"

\* isTextNode on a single node
IsTextLeaf(node) == node.type = "text"

matchNodeType(u1, u2) ==
  IF u1.arr /\ u2.arr THEN TRUE
  ELSE IF u1.arr \/ u2.arr THEN FALSE
  ELSE u1.nodes[1].type = u2.nodes[1].type

\* ensureArray
ensureArray(u) == u.nodes

Single(node) == [arr |-> FALSE, nodes |-> <<node>>]
Group(nodes) == [arr |-> TRUE, nodes |-> nodes]

-----------------------------------------------------------------------------
(* isNodeEqual *)
AttrKeys(attrs) == {p[1] : p \in attrs}
AttrHas(attrs, k) == \E p \in attrs : p[1] = k
AttrVal(attrs, k) == (CHOOSE p \in attrs : p[1] = k)[2]

\* attrs1[attr] !== attrs2[attr] over the union of the keys; a missing key is undefined
AttrsEqual(attrs1, attrs2) ==
  \A k \in AttrKeys(attrs1) \cup AttrKeys(attrs2) :
    /\ AttrHas(attrs1, k) = AttrHas(attrs2, k)
    /\ AttrHas(attrs1, k) => AttrVal(attrs1, k) = AttrVal(attrs2, k)

\* the Mark branch: type names and JSON.stringify(attrs) agree
isMarkEqual(m1, m2) == m1.type = m2.type /\ m1.attrs = m2.attrs

RECURSIVE isSingleNodeEqual(_, _)
isSingleNodeEqual(pnode1, pnode2) ==
  IF pnode1.type # pnode2.type THEN FALSE
  ELSE IF IsTextLeaf(pnode1) /\ getNodeText(pnode1) # getNodeText(pnode2) THEN FALSE
  ELSE IF ~AttrsEqual(getNodeAttributes(pnode1), getNodeAttributes(pnode2)) THEN FALSE
  ELSE IF Len(getNodeMarks(pnode1)) # Len(getNodeMarks(pnode2)) THEN FALSE
  ELSE IF \E i \in 1..Len(getNodeMarks(pnode1)) :
            ~isMarkEqual(getNodeMarks(pnode1)[i], getNodeMarks(pnode2)[i]) THEN FALSE
  ELSE IF Len(getNodeChildren(pnode1)) # Len(getNodeChildren(pnode2)) THEN FALSE
  ELSE \A i \in 1..Len(getNodeChildren(pnode1)) :
         isSingleNodeEqual(getNodeChildren(pnode1)[i], getNodeChildren(pnode2)[i])

isNodeEqual(u1, u2) ==
  IF u1.arr # u2.arr THEN FALSE
  ELSE IF u1.arr
       THEN /\ Len(u1.nodes) = Len(u2.nodes)
            /\ \A i \in 1..Len(u1.nodes) : isSingleNodeEqual(u1.nodes[i], u2.nodes[i])
  ELSE isSingleNodeEqual(u1.nodes[1], u2.nodes[1])

-----------------------------------------------------------------------------
(* normalizeNodeContent: maximal runs of text leaves become one group *)
RECURSIVE NormalizeFrom(_, _, _)
NormalizeFrom(content, i, res) ==
  IF i > Len(content) THEN res
  ELSE IF IsTextLeaf(content[i])
       THEN IF res # <<>> /\ res[Len(res)].arr /\ i > 1 /\ IsTextLeaf(content[i - 1])
            THEN NormalizeFrom(content, i + 1,
                   [res EXCEPT ![Len(res)].nodes = Append(@, content[i])])
            ELSE NormalizeFrom(content, i + 1, Append(res, Group(<<content[i]>>)))
       ELSE NormalizeFrom(content, i + 1, Append(res, Single(content[i])))

normalizeNodeContent(node) == NormalizeFrom(getNodeChildren(node), 1, <<>>)

-----------------------------------------------------------------------------
(* Fragment.fromArray: adjacent text nodes with the same markup are joined *)
SameMarkup(a, b) == a.type = b.type /\ a.attrs = b.attrs /\ a.marks = b.marks

RECURSIVE FragmentFromArray(_)
FragmentFromArray(array) ==
  IF Len(array) <= 1 THEN array
  ELSE LET init == FragmentFromArray(SubSeq(array, 1, Len(array) - 1))
           node == array[Len(array)]
           prev == init[Len(init)]
       IN IF IsTextLeaf(node) /\ SameMarkup(prev, node)
          THEN [init EXCEPT ![Len(init)].text = @ \o node.text]
          ELSE Append(init, node)

\* createNewNode: oldNode.type.create(oldNode.attrs, Fragment.fromArray(children), oldNode.marks)
createNewNode(old, children) ==
  [type |-> old.type, attrs |-> old.attrs, marks |-> MarkSetFrom(old.marks),
   content |-> FragmentFromArray(children), text |-> <<>>]

-----------------------------------------------------------------------------
(* Diff annotator *)
\* the mapper replacing the leaf's marks by the diff mark
MutDiffMapper(currentNode, type) ==
  IF IsTextLeaf(currentNode)
  THEN createTextNode(getNodeText(currentNode), <<createDiffMark(type)>>)
  ELSE currentNode

\* the mapper createDiffNode hands to mapDocumentNode
DiffMapper(currentNode, type) ==
  IF IsTextLeaf(currentNode)
  THEN createTextNode(getNodeText(currentNode),
                      Append(currentNode.marks, createDiffMark(type)))
  ELSE currentNode

RECURSIVE mapDocumentNode(_, _)
mapDocumentNode(node, type) ==
  LET copy == [node EXCEPT !.content =
                 FragmentFromArray([i \in 1..Len(node.content) |->
                                      mapDocumentNode(node.content[i], type)])]
  IN DiffMapper(copy, type)

createDiffNode(node, type) == mapDocumentNode(node, type)

-----------------------------------------------------------------------------
(* Text Diff Engine: tokenizeSentences, text.match(/[^.!?]+[.!?]*\s*/g).    *)
(* A match starts at the first character that is not '.', '!' or '?'; the   *)
(* characters the scan steps over before it belong to no match.             *)
IsPunct(c) == c \in {".", "!", "?"}
IsSpace(c) == c \in {" ", "\t", "\n"}

InClass(c, cls) ==
  CASE cls = "nonpunct" -> ~IsPunct(c)
    [] cls = "punct" -> IsPunct(c)
    [] OTHER -> IsSpace(c)

\* the first position >= i whose character is outside the class (greedy quantifier)
RECURSIVE RunEnd(_, _, _)
RunEnd(text, i, cls) ==
  IF i > Len(text) \/ ~InClass(text[i], cls) THEN i
  ELSE RunEnd(text, i + 1, cls)

RECURSIVE TokenizeFrom(_, _, _)
TokenizeFrom(text, i, matches) ==
  IF i > Len(text) THEN matches
  ELSE IF IsPunct(text[i]) THEN TokenizeFrom(text, i + 1, matches)
  ELSE LET j == RunEnd(text, RunEnd(text, RunEnd(text, i, "nonpunct"), "punct"), "space")
       IN TokenizeFrom(text, j, Append(matches, SubSeq(text, i, j - 1)))

tokenizeSentences(text) == TokenizeFrom(text, 1, <<>>)

(* sentencesToChars: each distinct sentence gets the next code, from 0;     *)
(* chars are sequences of codes, lineArray[code + 1] is the sentence.       *)
RECURSIVE EncodeSentences(_, _, _)
EncodeSentences(sentences, lineArray, chars) ==
  IF sentences = <<>> THEN [lineArray |-> lineArray, chars |-> chars]
  ELSE LET line == Head(sentences)
       IN IF \E c \in 1..Len(lineArray) : lineArray[c] = line
          THEN EncodeSentences(Tail(sentences), lineArray,
                 Append(chars, (CHOOSE c \in 1..Len(lineArray) : lineArray[c] = line) - 1))
          ELSE EncodeSentences(Tail(sentences), Append(lineArray, line),
                 Append(chars, Len(lineArray)))

sentencesToChars(oldSentences, newSentences) ==
  LET first == EncodeSentences(oldSentences, <<>>, <<>>)
      second == EncodeSentences(newSentences, first.lineArray, <<>>)
  IN [chars1 |-> first.chars, chars2 |-> second.chars, lineArray |-> second.lineArray]

-----------------------------------------------------------------------------
(* dmp.diff_main(chars1, chars2, false) of the diff-match-patch library:    *)
(* common prefix and suffix, diff_compute_ (empty side, containment, single *)
(* character, Myers bisection), then diff_cleanupMerge.  The half-match     *)
(* speed-up needs a side of at least 4 symbols after trimming and is not    *)
(* modelled; a diff is a sequence of [op, text].                            *)
Diff(op, text) == [op |-> op, text |-> text]

RECURSIVE CommonPrefix(_, _)
CommonPrefix(a, b) ==
  IF a = <<>> \/ b = <<>> \/ Head(a) # Head(b) THEN 0
  ELSE 1 + CommonPrefix(Tail(a), Tail(b))

RECURSIVE CommonSuffix(_, _)
CommonSuffix(a, b) ==
  IF a = <<>> \/ b = <<>> \/ a[Len(a)] # b[Len(b)] THEN 0
  ELSE 1 + CommonSuffix(SubSeq(a, 1, Len(a) - 1), SubSeq(b, 1, Len(b) - 1))

\* String.prototype.indexOf, 0-based, -1 when absent
IndexOf(long, short) ==
  LET hits == {i \in 0..(Len(long) - Len(short)) :
                 SubSeq(long, i + 1, i + Len(short)) = short}
  IN IF hits = {} THEN -1 ELSE CHOOSE i \in hits : \A j \in hits : i <= j

EndsWith(s, t) == Len(t) <= Len(s) /\ SubSeq(s, Len(s) - Len(t) + 1, Len(s)) = t
StartsWith(s, t) == Len(t) <= Len(s) /\ SubSeq(s, 1, Len(t)) = t

RemoveAt(s, i) == SubSeq(s, 1, i - 1) \o SubSeq(s, i + 1, Len(s))

\* diff_cleanupMerge, first pass; pointer is 0-based as in the library
RECURSIVE MergePass1(_, _, _, _, _, _)
MergePass1(diffs, pointer, cd, ci, td, ti) ==
  IF pointer >= Len(diffs) THEN diffs
  ELSE LET cur == diffs[pointer + 1]
       IN IF cur.op = Inserted
          THEN MergePass1(diffs, pointer + 1, cd, ci + 1, td, ti \o cur.text)
          ELSE IF cur.op = Deleted
          THEN MergePass1(diffs, pointer + 1, cd + 1, ci, td \o cur.text, ti)
          ELSE IF cd + ci > 1
          THEN LET both == cd # 0 /\ ci # 0
                   cp == IF both THEN CommonPrefix(ti, td) ELSE 0
                   start == pointer - cd - ci
                   hasPrevEq == start > 0 /\ diffs[start].op = Unchanged
                   d1 == IF cp = 0 THEN diffs
                         ELSE IF hasPrevEq
                              THEN [diffs EXCEPT ![start].text = @ \o SubSeq(ti, 1, cp)]
                              ELSE <<Diff(Unchanged, SubSeq(ti, 1, cp))>> \o diffs
                   p1 == IF cp # 0 /\ ~hasPrevEq THEN pointer + 1 ELSE pointer
                   ti1 == SubSeq(ti, cp + 1, Len(ti))
                   td1 == SubSeq(td, cp + 1, Len(td))
                   cs == IF both THEN CommonSuffix(ti1, td1) ELSE 0
                   d2 == IF cs = 0 THEN d1
                         ELSE [d1 EXCEPT ![p1 + 1].text =
                                 SubSeq(ti1, Len(ti1) - cs + 1, Len(ti1)) \o @]
                   ti2 == SubSeq(ti1, 1, Len(ti1) - cs)
                   td2 == SubSeq(td1, 1, Len(td1) - cs)
                   p2 == p1 - cd - ci
                   merged == (IF td2 # <<>> THEN <<Diff(Deleted, td2)>> ELSE <<>>)
                             \o (IF ti2 # <<>> THEN <<Diff(Inserted, ti2)>> ELSE <<>>)
                   d3 == SubSeq(d2, 1, p2) \o merged
                         \o SubSeq(d2, p2 + cd + ci + 1, Len(d2))
               IN MergePass1(d3, p2 + Len(merged) + 1, 0, 0, <<>>, <<>>)
          ELSE IF pointer # 0 /\ diffs[pointer].op = Unchanged
          THEN MergePass1(RemoveAt([diffs EXCEPT ![pointer].text = @ \o cur.text],
                                   pointer + 1),
                          pointer, 0, 0, <<>>, <<>>)
          ELSE MergePass1(diffs, pointer + 1, 0, 0, <<>>, <<>>)

\* second pass: a single edit between two equalities is shifted sideways
RECURSIVE MergePass2(_, _, _)
MergePass2(diffs, pointer, changes) ==
  IF pointer >= Len(diffs) - 1 THEN [diffs |-> diffs, changes |-> changes]
  ELSE LET prev == diffs[pointer]
           cur == diffs[pointer + 1]
           next == diffs[pointer + 2]
       IN IF prev.op = Unchanged /\ next.op = Unchanged
          THEN IF EndsWith(cur.text, prev.text)
               THEN MergePass2(
                      RemoveAt([diffs EXCEPT
                        ![pointer + 1].text =
                            prev.text \o SubSeq(cur.text, 1, Len(cur.text) - Len(prev.text)),
                        ![pointer + 2].text = prev.text \o next.text], pointer),
                      pointer + 1, TRUE)
               ELSE IF StartsWith(cur.text, next.text)
               THEN MergePass2(
                      RemoveAt([diffs EXCEPT
                        ![pointer].text = prev.text \o next.text,
                        ![pointer + 1].text =
                            SubSeq(cur.text, Len(next.text) + 1, Len(cur.text)) \o next.text],
                        pointer + 2),
                      pointer + 1, TRUE)
               ELSE MergePass2(diffs, pointer + 1, changes)
          ELSE MergePass2(diffs, pointer + 1, changes)

RECURSIVE diff_cleanupMerge(_)
diff_cleanupMerge(diffs) ==
  LET pass1 == MergePass1(Append(diffs, Diff(Unchanged, <<>>)), 0, 0, 0, <<>>, <<>>)
      popped == IF pass1[Len(pass1)].text = <<>>
                THEN SubSeq(pass1, 1, Len(pass1) - 1) ELSE pass1
      pass2 == MergePass2(popped, 1, FALSE)
  IN IF pass2.changes THEN diff_cleanupMerge(pass2.diffs) ELSE pass2.diffs

RECURSIVE diff_main(_, _)

\* diff_bisectSplit_
BisectSplit(text1, text2, x, y) ==
  diff_main(SubSeq(text1, 1, x), SubSeq(text2, 1, y))
    \o diff_main(SubSeq(text1, x + 1, Len(text1)), SubSeq(text2, y + 1, Len(text2)))

\* the snake: follow the diagonal while the characters agree
RECURSIVE Snake(_, _, _, _, _)
Snake(text1, text2, x, y, reverse) ==
  IF x < Len(text1) /\ y < Len(text2)
     /\ (IF reverse THEN text1[Len(text1) - x] = text2[Len(text2) - y]
                    ELSE text1[x + 1] = text2[y + 1])
  THEN Snake(text1, text2, x + 1, y + 1, reverse)
  ELSE x

MaxD(text1, text2) == (Len(text1) + Len(text2) + 1) \div 2

\* the k-th entry of a v array, or -1 outside of it
VGet(v, k) == IF k \in DOMAIN v THEN v[k] ELSE -1

NextX(v, k, d, vOffset) ==
  IF k = 0 - d \/ (k # d /\ VGet(v, vOffset + k - 1) < VGet(v, vOffset + k + 1))
  THEN VGet(v, vOffset + k + 1)
  ELSE VGet(v, vOffset + k - 1) + 1

\* diff_bisect_: the front path's walk for one d; st holds v1, v2 and the k bounds
RECURSIVE BisectFront(_, _, _, _, _)
BisectFront(text1, text2, st, d, k1) ==
  IF k1 > d - st.k1end THEN [found |-> FALSE, st |-> st, x |-> 0, y |-> 0]
  ELSE LET vOffset == MaxD(text1, text2)
           delta == Len(text1) - Len(text2)
           front == delta % 2 # 0
           x0 == NextX(st.v1, k1, d, vOffset)
           x1 == Snake(text1, text2, x0, x0 - k1, FALSE)
           y1 == x1 - k1
           st1 == [st EXCEPT !.v1[vOffset + k1] = x1]
           k2Offset == vOffset + delta - k1
       IN IF x1 > Len(text1)
          THEN BisectFront(text1, text2, [st1 EXCEPT !.k1end = @ + 2], d, k1 + 2)
          ELSE IF y1 > Len(text2)
          THEN BisectFront(text1, text2, [st1 EXCEPT !.k1start = @ + 2], d, k1 + 2)
          ELSE IF front /\ k2Offset >= 0 /\ k2Offset < 2 * vOffset
                  /\ st1.v2[k2Offset] # -1
                  /\ x1 >= Len(text1) - st1.v2[k2Offset]
          THEN [found |-> TRUE, st |-> st1, x |-> x1, y |-> y1]
          ELSE BisectFront(text1, text2, st1, d, k1 + 2)

\* the reverse path's walk for one d
RECURSIVE BisectReverse(_, _, _, _, _)
BisectReverse(text1, text2, st, d, k2) ==
  IF k2 > d - st.k2end THEN [found |-> FALSE, st |-> st, x |-> 0, y |-> 0]
  ELSE LET vOffset == MaxD(text1, text2)
           delta == Len(text1) - Len(text2)
           front == delta % 2 # 0
           x0 == NextX(st.v2, k2, d, vOffset)
           x2 == Snake(text1, text2, x0, x0 - k2, TRUE)
           y2 == x2 - k2
           st1 == [st EXCEPT !.v2[vOffset + k2] = x2]
           k1Offset == vOffset + delta - k2
       IN IF x2 > Len(text1)
          THEN BisectReverse(text1, text2, [st1 EXCEPT !.k2end = @ + 2], d, k2 + 2)
          ELSE IF y2 > Len(text2)
          THEN BisectReverse(text1, text2, [st1 EXCEPT !.k2start = @ + 2], d, k2 + 2)
          ELSE IF ~front /\ k1Offset >= 0 /\ k1Offset < 2 * vOffset
                  /\ st1.v1[k1Offset] # -1
                  /\ st1.v1[k1Offset] >= Len(text1) - x2
          THEN [found |-> TRUE, st |-> st1, x |-> st1.v1[k1Offset],
                y |-> vOffset + st1.v1[k1Offset] - k1Offset]
          ELSE BisectReverse(text1, text2, st1, d, k2 + 2)

RECURSIVE BisectLoop(_, _, _, _)
BisectLoop(text1, text2, st, d) ==
  IF d >= MaxD(text1, text2)
  THEN <<Diff(Deleted, text1), Diff(Inserted, text2)>>
  ELSE LET f == BisectFront(text1, text2, st, d, st.k1start - d)
       IN IF f.found THEN BisectSplit(text1, text2, f.x, f.y)
          ELSE LET r == BisectReverse(text1, text2, f.st, d, f.st.k2start - d)
               IN IF r.found THEN BisectSplit(text1, text2, r.x, r.y)
                  ELSE BisectLoop(text1, text2, r.st, d + 1)

diff_bisect(text1, text2) ==
  LET maxD == MaxD(text1, text2)
      v == [k \in 0..(2 * maxD) |-> IF k = maxD + 1 THEN 0 ELSE -1]
  IN BisectLoop(text1, text2,
       [v1 |-> v, v2 |-> v, k1start |-> 0, k1end |-> 0, k2start |-> 0, k2end |-> 0], 0)

diff_compute(text1, text2) ==
  IF text1 = <<>> THEN <<Diff(Inserted, text2)>>
  ELSE IF text2 = <<>> THEN <<Diff(Deleted, text1)>>
  ELSE LET longtext == IF Len(text1) > Len(text2) THEN text1 ELSE text2
           shorttext == IF Len(text1) > Len(text2) THEN text2 ELSE text1
           i == IndexOf(longtext, shorttext)
           op == IF Len(text1) > Len(text2) THEN Deleted ELSE Inserted
       IN IF i # -1
          THEN <<Diff(op, SubSeq(longtext, 1, i)),
                 Diff(Unchanged, shorttext),
                 Diff(op, SubSeq(longtext, i + Len(shorttext) + 1, Len(longtext)))>>
          ELSE IF Len(shorttext) = 1
          THEN <<Diff(Deleted, text1), Diff(Inserted, text2)>>
          ELSE diff_bisect(text1, text2)

diff_main(text1, text2) ==
  IF text1 = text2
  THEN IF text1 # <<>> THEN <<Diff(Unchanged, text1)>> ELSE <<>>
  ELSE LET cp == CommonPrefix(text1, text2)
           t1 == SubSeq(text1, cp + 1, Len(text1))
           t2 == SubSeq(text2, cp + 1, Len(text2))
           cs == CommonSuffix(t1, t2)
           diffs == diff_compute(SubSeq(t1, 1, Len(t1) - cs), SubSeq(t2, 1, Len(t2) - cs))
           pre == IF cp # 0 THEN <<Diff(Unchanged, SubSeq(text1, 1, cp))>> ELSE <<>>
           suf == IF cs # 0 THEN <<Diff(Unchanged, SubSeq(t1, Len(t1) - cs + 1, Len(t1)))>>
                  ELSE <<>>
       IN diff_cleanupMerge(pre \o diffs \o suf)

-----------------------------------------------------------------------------
(* patchTextNodes *)
ConcatText(nodes) == Flat([i \in 1..Len(nodes) |-> getNodeText(nodes[i])])

\* one text leaf per sentence of one raw diff
SentenceNodes(d, lineArray) ==
  [i \in 1..Len(d.text) |->
     createTextNode(lineArray[d.text[i] + 1],
                    IF d.op # Unchanged THEN <<createDiffMark(d.op)>> ELSE <<>>)]

patchTextNodes(oldN, newN) ==
  LET oldSentences == tokenizeSentences(ConcatText(oldN))
      newSentences == tokenizeSentences(ConcatText(newN))
      enc == sentencesToChars(oldSentences, newSentences)
      rawDiffs == diff_main(enc.chars1, enc.chars2)
  IN Flat([i \in 1..Len(rawDiffs) |-> SentenceNodes(rawDiffs[i], enc.lineArray)])

-----------------------------------------------------------------------------
(* Best-run matcher *)
\* the search returning the last equal position instead of the first
MutFindMatchNode(children, node) ==
  LET hits == {i \in 0..(Len(children) - 1) : isNodeEqual(children[i + 1], node)}
  IN IF hits = {} THEN -1 ELSE CHOOSE i \in hits : \A j \in hits : i >= j

findMatchNode(children, node) ==
  LET hits == {i \in 0..(Len(children) - 1) : isNodeEqual(children[i + 1], node)}
  IN IF hits = {} THEN -1 ELSE CHOOSE i \in hits : \A j \in hits : i <= j

\* the inner for loop of matchNodes: the old end index of the run
RECURSIVE ExtendMatch(_, _, _, _)
ExtendMatch(oldChildren, newChildren, oldEndIndex, newEndIndex) ==
  IF oldEndIndex < Len(oldChildren) /\ newEndIndex < Len(newChildren)
     /\ isNodeEqual(newChildren[newEndIndex + 1], oldChildren[oldEndIndex + 1])
  THEN ExtendMatch(oldChildren, newChildren, oldEndIndex + 1, newEndIndex + 1)
  ELSE oldEndIndex

RECURSIVE MatchFrom(_, _, _, _)
MatchFrom(oldChildren, newChildren, oldStartIndex, matches) ==
  IF oldStartIndex >= Len(oldChildren) THEN matches
  ELSE LET newStartIndex == findMatchNode(newChildren, oldChildren[oldStartIndex + 1])
           oldEndIndex == ExtendMatch(oldChildren, newChildren,
                                      oldStartIndex + 1, newStartIndex + 1)
           newEndIndex == newStartIndex + (oldEndIndex - oldStartIndex)
       IN IF newStartIndex # -1
          THEN MatchFrom(oldChildren, newChildren, oldStartIndex + 1,
                 Append(matches,
                   [oldStartIndex |-> oldStartIndex, newStartIndex |-> newStartIndex,
                    oldEndIndex |-> oldEndIndex, newEndIndex |-> newEndIndex,
                    count |-> newEndIndex - newStartIndex]))
          ELSE MatchFrom(oldChildren, newChildren, oldStartIndex + 1, matches)

matchNodes(oldChildren, newChildren) == MatchFrom(oldChildren, newChildren, 0, <<>>)

\* .sort((a, b) => b.count - a.count): stable, greatest count first
RECURSIVE InsertByCount(_, _)
InsertByCount(sorted, m) ==
  IF sorted = <<>> THEN <<m>>
  ELSE IF sorted[Len(sorted)].count >= m.count THEN Append(sorted, m)
  ELSE Append(InsertByCount(SubSeq(sorted, 1, Len(sorted) - 1), m), sorted[Len(sorted)])

RECURSIVE SortByCount(_)
SortByCount(matches) ==
  IF matches = <<>> THEN <<>>
  ELSE InsertByCount(SortByCount(SubSeq(matches, 1, Len(matches) - 1)),
                     matches[Len(matches)])

-----------------------------------------------------------------------------
(* Tree patcher *)
\* a similarity score that tells the pairs apart: the size of the old unit
MutComputeChildEqualityFactor(node1, node2) == Len(node1.nodes[1].content)

computeChildEqualityFactor(node1, node2) == 0

\* thrown by assertNodeTypeEqual
NodeTypeNotEqual ==
  [type |-> "Error: node type not equal", attrs |-> {}, marks |-> <<>>,
   content |-> <<>>, text |-> <<>>]

\* the assertion comparing a node with itself
MutAssertNodeTypeEqual(node1, node2) == node1.type = node1.type

assertNodeTypeEqual(node1, node2) == node1.type = node2.type

\* the prefix loop under the suffix loop's bound
RECURSIVE MutTrimLeft(_, _, _)
MutTrimLeft(oldChildren, newChildren, left) ==
  IF left + 1 < Min(Len(oldChildren), Len(newChildren))
     /\ isNodeEqual(oldChildren[left + 1], newChildren[left + 1])
  THEN MutTrimLeft(oldChildren, newChildren, left + 1)
  ELSE left

\* the prefix loop of patchDocumentNode: the value of left after it
RECURSIVE TrimLeft(_, _, _)
TrimLeft(oldChildren, newChildren, left) ==
  IF left < Min(Len(oldChildren), Len(newChildren))
     /\ isNodeEqual(oldChildren[left + 1], newChildren[left + 1])
  THEN TrimLeft(oldChildren, newChildren, left + 1)
  ELSE left

\* the suffix loop under the prefix loop's bound
RECURSIVE MutTrimRight(_, _, _, _)
MutTrimRight(oldChildren, newChildren, left, right) ==
  IF right + left < Min(Len(oldChildren), Len(newChildren))
     /\ isNodeEqual(oldChildren[Len(oldChildren) - right],
                    newChildren[Len(newChildren) - right])
  THEN MutTrimRight(oldChildren, newChildren, left, right + 1)
  ELSE right

\* the suffix loop of patchDocumentNode: the value of right after it
RECURSIVE TrimRight(_, _, _, _)
TrimRight(oldChildren, newChildren, left, right) ==
  IF right + left + 1 < Min(Len(oldChildren), Len(newChildren))
     /\ isNodeEqual(oldChildren[Len(oldChildren) - right],
                    newChildren[Len(newChildren) - right])
  THEN TrimRight(oldChildren, newChildren, left, right + 1)
  ELSE right

FlatUnits(units) == Flat([i \in 1..Len(units) |-> ensureArray(units[i])])

\* the locals of a patchRemainNodes call as it starts
RemainInit(oldChildren, newChildren) ==
  [oldChildren |-> oldChildren, newChildren |-> newChildren, left |-> 0, right |-> 0,
   finalLeftChildren |-> <<>>, finalRightChildren |-> <<>>]

\* the while condition of patchRemainNodes
RemainGuard(r) ==
  /\ Len(r.oldChildren) - r.left - r.right > 0
  /\ Len(r.newChildren) - r.left - r.right > 0

leftOldNode(r) == r.oldChildren[r.left + 1]
leftNewNode(r) == r.newChildren[r.left + 1]
rightOldNode(r) == r.oldChildren[Len(r.oldChildren) - r.right]
rightNewNode(r) == r.newChildren[Len(r.newChildren) - r.right]

\* updateLeft and updateRight as first assigned
UpdateLeft0(r) == ~isTextNode(leftOldNode(r)) /\ matchNodeType(leftOldNode(r), leftNewNode(r))
UpdateRight0(r) == ~isTextNode(rightOldNode(r)) /\ matchNodeType(rightOldNode(r), rightNewNode(r))

BothArrays(r) == leftOldNode(r).arr /\ leftNewNode(r).arr

\* the tie-break giving the left pair up on equal scores
MutUpdateLeft(r) ==
  IF UpdateLeft0(r) /\ UpdateRight0(r)
     /\ computeChildEqualityFactor(leftOldNode(r), leftNewNode(r))
          <= computeChildEqualityFactor(rightOldNode(r), rightNewNode(r))
  THEN FALSE ELSE UpdateLeft0(r)

\* updateLeft and updateRight after the tie-break
UpdateLeft(r) ==
  IF UpdateLeft0(r) /\ UpdateRight0(r)
     /\ computeChildEqualityFactor(leftOldNode(r), leftNewNode(r))
          < computeChildEqualityFactor(rightOldNode(r), rightNewNode(r))
  THEN FALSE ELSE UpdateLeft0(r)

UpdateRight(r) ==
  IF UpdateLeft0(r) /\ UpdateRight0(r)
     /\ ~(computeChildEqualityFactor(leftOldNode(r), leftNewNode(r))
            < computeChildEqualityFactor(rightOldNode(r), rightNewNode(r)))
  THEN FALSE ELSE UpdateRight0(r)

RECURSIVE patchDocumentNode(_, _)

\* one iteration of the while loop of patchRemainNodes
RemainStep(r) ==
  IF BothArrays(r)
  THEN [r EXCEPT !.finalLeftChildren =
                    @ \o patchTextNodes(leftOldNode(r).nodes, leftNewNode(r).nodes),
                 !.left = @ + 1]
  ELSE IF UpdateLeft(r)
  THEN [r EXCEPT !.finalLeftChildren =
                    IF ~leftOldNode(r).arr /\ ~leftNewNode(r).arr
                    THEN Append(@, patchDocumentNode(leftOldNode(r).nodes[1],
                                                     leftNewNode(r).nodes[1]))
                    ELSE @,
                 !.left = @ + 1]
  ELSE IF UpdateRight(r)
  THEN [r EXCEPT !.finalRightChildren =
                    IF ~rightOldNode(r).arr /\ ~rightNewNode(r).arr
                    THEN <<patchDocumentNode(rightOldNode(r).nodes[1],
                                             rightNewNode(r).nodes[1])>> \o @
                    ELSE @,
                 !.right = @ + 1]
  ELSE [r EXCEPT !.finalLeftChildren =
                    @ \o (IF ~leftOldNode(r).arr
                          THEN <<createDiffNode(leftOldNode(r).nodes[1], Deleted)>>
                          ELSE <<>>)
                      \o (IF ~leftNewNode(r).arr
                          THEN <<createDiffNode(leftNewNode(r).nodes[1], Inserted)>>
                          ELSE <<>>),
                 !.left = @ + 1]

RECURSIVE RemainLoop(_)
RemainLoop(r) == IF RemainGuard(r) THEN RemainLoop(RemainStep(r)) ELSE r

\* what patchRemainNodes does after the loop, and its return value
RemainReturn(r) ==
  LET deleteNodeLen == Len(r.oldChildren) - r.left - r.right
      insertNodeLen == Len(r.newChildren) - r.left - r.right
      deleted == FlatUnits(Slice(r.oldChildren, r.left, r.left + deleteNodeLen))
      inserted == FlatUnits(Slice(r.newChildren, r.left, r.left + insertNodeLen))
      finalLeft == r.finalLeftChildren
                     \o (IF deleteNodeLen # 0
                         THEN [i \in 1..Len(deleted) |-> createDiffNode(deleted[i], Deleted)]
                         ELSE <<>>)
      finalRight == (IF insertNodeLen # 0
                     THEN [i \in 1..Len(inserted) |-> createDiffNode(inserted[i], Inserted)]
                     ELSE <<>>)
                      \o r.finalRightChildren
  IN finalLeft \o finalRight

patchRemainNodes(oldChildren, newChildren) ==
  RemainReturn(RemainLoop(RemainInit(oldChildren, newChildren)))

\* patchDocumentNode up to the trimmed slices and the sorted matches
PatchStart(oldN, newN) ==
  LET oldChildren == normalizeNodeContent(oldN)
      newChildren == normalizeNodeContent(newN)
      left == TrimLeft(oldChildren, newChildren, 0)
      right == TrimRight(oldChildren, newChildren, left, 0)
      diffOldChildren == Slice(oldChildren, left, Len(oldChildren) - right)
      diffNewChildren == Slice(newChildren, left, Len(newChildren) - right)
  IN [oldChildren |-> oldChildren, newChildren |-> newChildren,
      left |-> left, right |-> right,
      finalLeftChildren |-> FlatUnits(Slice(oldChildren, 0, left)),
      finalRightChildren |->
        FlatUnits(Slice(oldChildren, Len(oldChildren) - right, Len(oldChildren))),
      diffOldChildren |-> diffOldChildren, diffNewChildren |-> diffNewChildren,
      matchedNodes |-> IF diffOldChildren # <<>> /\ diffNewChildren # <<>>
                       THEN SortByCount(matchNodes(diffOldChildren, diffNewChildren))
                       ELSE <<>>]

\* the patchRemainNodes calls patchDocumentNode makes, in order: the slices,
\* the accumulator the result goes to, and what is pushed after it
PatchCalls(p) ==
  IF p.matchedNodes # <<>>
  THEN LET bestMatch == p.matchedNodes[1]
       IN <<[oldChildren |-> Slice(p.diffOldChildren, 0, bestMatch.oldStartIndex),
             newChildren |-> Slice(p.diffNewChildren, 0, bestMatch.newStartIndex),
             side |-> "left",
             matched |-> FlatUnits(Slice(p.diffOldChildren, bestMatch.oldStartIndex,
                                         bestMatch.oldEndIndex))],
            [oldChildren |-> Slice(p.diffOldChildren, bestMatch.oldEndIndex,
                                   Len(p.diffOldChildren)),
             newChildren |-> Slice(p.diffNewChildren, bestMatch.newEndIndex,
                                   Len(p.diffNewChildren)),
             side |-> "right", matched |-> <<>>]>>
  ELSE <<[oldChildren |-> p.diffOldChildren, newChildren |-> p.diffNewChildren,
          side |-> "left", matched |-> <<>>]>>

\* the accumulators of patchDocumentNode after one patchRemainNodes call returned
PatchAbsorb(p, call, returned) ==
  IF call.side = "left"
  THEN [p EXCEPT !.finalLeftChildren = @ \o returned \o call.matched]
  ELSE [p EXCEPT !.finalRightChildren = returned \o @]

RECURSIVE PatchRun(_, _)
PatchRun(p, calls) ==
  IF calls = <<>> THEN p
  ELSE PatchRun(PatchAbsorb(p, Head(calls),
                            patchRemainNodes(Head(calls).oldChildren,
                                             Head(calls).newChildren)),
                Tail(calls))

PatchResult(oldN, p) == createNewNode(oldN, p.finalLeftChildren \o p.finalRightChildren)

patchDocumentNode(oldN, newN) ==
  IF ~assertNodeTypeEqual(oldN, newN) THEN NodeTypeNotEqual
  ELSE LET p == PatchStart(oldN, newN)
       IN PatchResult(oldN, PatchRun(p, PatchCalls(p)))

-----------------------------------------------------------------------------
(* The documents the calls are made on.  They are in ProseMirror's normal   *)
(* form: marks sorted by rank, no two adjacent text leaves with the same    *)
(* marks, no empty text leaf.                                               *)
MaxInline == 2
MaxBlocks == 3
MaxText == 4

Bold == [type |-> "bold", attrs |-> {}]
Italic == [type |-> "italic", attrs |-> {}]

Text(s, marks) ==
  [type |-> "text", attrs |-> {}, marks |-> marks, content |-> <<>>, text |-> s]
Elem(type, attrs, content) ==
  [type |-> type, attrs |-> attrs, marks |-> <<>>, content |-> content, text |-> <<>>]
Image(src) == Elem("image", {<<"src", src>>}, <<>>)
Break == Elem("hard_break", {}, <<>>)
Paragraph(content) == Elem("paragraph", {}, content)
Heading(content) == Elem("heading", {<<"level", 1>>}, content)
Doc(content) == Elem("doc", {}, content)

SeqsUpTo(S, n) == UNION {[1..k -> S] : k \in 0..n}

NormalForm(content) ==
  \A i \in 1..(Len(content) - 1) :
    ~(IsTextLeaf(content[i]) /\ IsTextLeaf(content[i + 1])
      /\ SameMarkup(content[i], content[i + 1]))

InlineAtoms ==
  {Text(<<"a", ".">>, <<>>), Text(<<"b">>, <<Bold>>), Image(1), Image(2), Break}

InlineLists == {l \in SeqsUpTo(InlineAtoms, MaxInline) : NormalForm(l)}

Paragraphs == {Paragraph(l) : l \in InlineLists}

ParA == Paragraph(<<Text(<<"a", ".">>, <<>>)>>)
ParB == Paragraph(<<Text(<<"b">>, <<>>)>>)
ParC == Paragraph(<<Text(<<"c", "!">>, <<>>)>>)
ParX == Paragraph(<<Text(<<"x", ".">>, <<>>)>>)
HeadB == Heading(<<Text(<<"b">>, <<>>)>>)

\* the children of the old and of the new documents
OldBlocks == {ParA, ParB, ParC, HeadB}
NewBlocks == {ParA, ParX, ParC}

OldDocs == {Doc(l) : l \in SeqsUpTo(OldBlocks, MaxBlocks)}
NewDocs == {Doc(l) : l \in SeqsUpTo(NewBlocks, MaxBlocks)}

\* Scenario B of the specification
TheCatSat == <<"T", "h", "e", " ", "c", "a", "t", " ", "s", "a", "t", ".">>
ItPurred == <<"I", "t", " ", "p", "u", "r", "r", "e", "d", ".">>
ScenarioBOld == Paragraph(<<Text(TheCatSat, <<>>)>>)
ScenarioBNew == Paragraph(<<Text(TheCatSat \o <<" ">> \o ItPurred, <<>>)>>)

\* the argument pairs of the top-level call
CallPairs ==
  (Paragraphs \X Paragraphs) \cup (OldDocs \X NewDocs)
    \cup {<<d, d>> : d \in OldDocs \cup NewDocs}
    \cup (OldBlocks \X NewBlocks)
    \cup (OldBlocks \X {Doc(<<>>), Doc(<<ParA>>)}) \cup ({Doc(<<>>), Doc(<<ParA>>)} \X NewBlocks)
    \cup {<<ScenarioBOld, ScenarioBNew>>}

NoResult == [type |-> "none", attrs |-> {}, marks |-> <<>>, content |-> <<>>, text |-> <<>>]
NoCall == RemainInit(<<>>, <<>>)
NoPatch ==
  [oldChildren |-> <<>>, newChildren |-> <<>>, left |-> 0, right |-> 0,
   finalLeftChildren |-> <<>>, finalRightChildren |-> <<>>,
   diffOldChildren |-> <<>>, diffNewChildren |-> <<>>, matchedNodes |-> <<>>]

TextIdle == textOld = <<>> /\ textNew = <<>> /\ textRes = <<>>
AnnIdle == annNode = NoResult /\ annType = Unchanged /\ annRes = NoResult
PatchIdle ==
  /\ oldNode = NoResult /\ newNode = NoResult /\ pdn = NoPatch
  /\ pending = <<>> /\ rem = NoCall /\ result = NoResult

-----------------------------------------------------------------------------
(* diffEditor / patchDocumentNode as a state machine: the top-level call    *)
(* runs its patchRemainNodes loops one iteration per step; the calls nested *)
(* inside an iteration are evaluated within it.                             *)
Init ==
  /\ pc = "start"
  /\ \E pair \in CallPairs : oldNode = pair[1] /\ newNode = pair[2]
  /\ pdn = NoPatch /\ pending = <<>> /\ rem = NoCall /\ result = NoResult
  /\ TextIdle /\ AnnIdle

\* patchDocumentNode from its entry to its first patchRemainNodes call
Start ==
  /\ pc = "start"
  /\ IF ~assertNodeTypeEqual(oldNode, newNode)
     THEN /\ pc' = "thrown"
          /\ UNCHANGED <<pdn, pending, rem>>
     ELSE LET p == PatchStart(oldNode, newNode)
              calls == PatchCalls(p)
          IN /\ pc' = "remain"
             /\ pdn' = p
             /\ pending' = calls
             /\ rem' = RemainInit(calls[1].oldChildren, calls[1].newChildren)
  /\ UNCHANGED <<oldNode, newNode, result, textOld, textNew, textRes,
                 annNode, annType, annRes>>

\* one iteration of the while loop of the running patchRemainNodes call
RemainIter ==
  /\ pc = "remain"
  /\ RemainGuard(rem)
  /\ rem' = RemainStep(rem)
  /\ UNCHANGED <<pc, oldNode, newNode, pdn, pending, result, textOld, textNew, textRes,
                 annNode, annType, annRes>>

\* the running patchRemainNodes call returns; patchDocumentNode goes on to its
\* next call, or builds the node and returns
RemainDone ==
  /\ pc = "remain"
  /\ ~RemainGuard(rem)
  /\ LET p == PatchAbsorb(pdn, Head(pending), RemainReturn(rem))
     IN /\ pdn' = p
        /\ pending' = Tail(pending)
        /\ IF Tail(pending) # <<>>
           THEN /\ rem' = RemainInit(pending[2].oldChildren, pending[2].newChildren)
                /\ UNCHANGED <<pc, result>>
           ELSE /\ pc' = "done"
                /\ result' = PatchResult(oldNode, p)
                /\ UNCHANGED rem
  /\ UNCHANGED <<oldNode, newNode, textOld, textNew, textRes, annNode, annType, annRes>>

Next == Start \/ RemainIter \/ RemainDone

Spec == Init /\ [][Next]_vars

-----------------------------------------------------------------------------
(* An exported patchTextNodes call on two runs of text leaves *)
Alphabet == {"a", ".", " "}
Strings(n) == UNION {[1..k -> Alphabet] : k \in 1..n}

TextRuns ==
  {<<Text(t, <<>>)>> : t \in Strings(MaxText)}
    \cup {<<Text(t1, <<>>), Text(t2, <<Bold>>)>> : t1 \in Strings(1), t2 \in Strings(1)}
    \cup {ScenarioBOld.content, ScenarioBNew.content}

InitText ==
  /\ pc = "text"
  /\ textOld \in TextRuns /\ textNew \in TextRuns /\ textRes = <<>>
  /\ PatchIdle /\ AnnIdle

PatchTextNodesCall ==
  /\ pc = "text"
  /\ textRes' = patchTextNodes(textOld, textNew)
  /\ pc' = "text_done"
  /\ UNCHANGED <<oldNode, newNode, pdn, pending, rem, result, textOld, textNew,
                 annNode, annType, annRes>>

NextText == PatchTextNodesCall

SpecText == InitText /\ [][NextText]_vars

-----------------------------------------------------------------------------
(* An exported createDiffNode call *)
AnnotNodes ==
  Paragraphs \cup OldDocs \cup InlineAtoms
    \cup {Text(<<"a">>, <<Bold, Italic>>), Text(<<"a">>, <<Italic>>),
          Text(<<"b">>, <<DiffMarkOf(Deleted)>>),
          Paragraph(<<Text(<<"a">>, <<Italic>>), Text(<<"b">>, <<Bold, Italic>>), Break>>)}

InitAnnot ==
  /\ pc = "annotate"
  /\ annNode \in AnnotNodes /\ annType \in {Inserted, Deleted} /\ annRes = NoResult
  /\ PatchIdle /\ TextIdle

CreateDiffNodeCall ==
  /\ pc = "annotate"
  /\ annRes' = createDiffNode(annNode, annType)
  /\ pc' = "annotated"
  /\ UNCHANGED <<oldNode, newNode, pdn, pending, rem, result, textOld, textNew, textRes,
                 annNode, annType>>

NextAnnot == CreateDiffNodeCall

SpecAnnot == InitAnnot /\ [][NextAnnot]_vars

-----------------------------------------------------------------------------
(* Reading a tree: its text leaves in document order, their diff marks *)
RECURSIVE Leaves(_)
Leaves(node) ==
  IF IsTextLeaf(node) THEN <<node>>
  ELSE Flat([i \in 1..Len(node.content) |-> Leaves(node.content[i])])

HasDiffMark(leaf, type) == \E i \in 1..Len(leaf.marks) : leaf.marks[i] = DiffMarkOf(type)
HasAnyDiffMark(leaf) == \E i \in 1..Len(leaf.marks) : leaf.marks[i].type = "diffMark"

\* the text of the leaves that do not carry the diff mark `type`
RECURSIVE TextWithout(_, _)
TextWithout(leaves, type) ==
  IF leaves = <<>> THEN <<>>
  ELSE (IF HasDiffMark(Head(leaves), type) THEN <<>> ELSE Head(leaves).text)
         \o TextWithout(Tail(leaves), type)

\* the text of the leaves that carry no diff mark, and of those that carry `type`
RECURSIVE TextUnmarked(_)
TextUnmarked(leaves) ==
  IF leaves = <<>> THEN <<>>
  ELSE (IF HasAnyDiffMark(Head(leaves)) THEN <<>> ELSE Head(leaves).text)
         \o TextUnmarked(Tail(leaves))

RECURSIVE TextWith(_, _)
TextWith(leaves, type) ==
  IF leaves = <<>> THEN <<>>
  ELSE (IF HasDiffMark(Head(leaves), type) THEN Head(leaves).text ELSE <<>>)
         \o TextWith(Tail(leaves), type)

AllText(node) == ConcatText(Leaves(node))

\* r is n with one diff mark `type` added to every text leaf and nothing else changed
RECURSIVE Annotated(_, _, _)
Annotated(n, r, type) ==
  /\ r.type = n.type /\ r.attrs = n.attrs /\ r.text = n.text
  /\ Len(r.content) = Len(n.content)
  /\ IF IsTextLeaf(n)
     THEN \E k \in 1..Len(r.marks) :
            r.marks[k] = DiffMarkOf(type) /\ RemoveAt(r.marks, k) = n.marks
     ELSE r.marks = n.marks
  /\ \A i \in 1..Len(n.content) : Annotated(n.content[i], r.content[i], type)

SinglesOfSameType(u1, u2) ==
  ~u1.arr /\ ~u2.arr /\ u1.nodes[1].type # "text" /\ u1.nodes[1].type = u2.nodes[1].type

-----------------------------------------------------------------------------
\* C1: diffing a document against itself returns a tree equal to it, with no
\* diff mark on any leaf; the prefix trim consumes every unit, the diff slices
\* are empty, the matcher is not run and the only patchRemainNodes call gets
\* two empty lists.
C1_Identity ==
  (pc = "done" /\ oldNode = newNode) =>
    /\ result = oldNode
    /\ \A i \in 1..Len(Leaves(result)) : ~HasAnyDiffMark(Leaves(result)[i])
    /\ pdn.left = Len(pdn.oldChildren) /\ pdn.right = 0
    /\ pdn.diffOldChildren = <<>> /\ pdn.diffNewChildren = <<>>
    /\ pdn.matchedNodes = <<>>
    /\ rem = NoCall

C1_Witness ==
  /\ pc = "done" /\ oldNode = newNode
  /\ Len(oldNode.content) >= 3
  /\ Len(Leaves(oldNode)) >= 2

\* C2: no content is dropped: the text of the output's leaves that are not
\* marked Inserted is the old document's text, and the text of those not
\* marked Deleted is the new document's text.
C2_Coverage ==
  pc = "done" =>
    /\ TextWithout(Leaves(result), Inserted) = AllText(oldNode)
    /\ TextWithout(Leaves(result), Deleted) = AllText(newNode)

\* C3: the leaves patchTextNodes returns spell the new text once the Deleted
\* ones are dropped and the old text once the Inserted ones are dropped.
C3_RoundTrip ==
  pc = "text_done" =>
    /\ TextWithout(textRes, Deleted) = ConcatText(textNew)
    /\ TextWithout(textRes, Inserted) = ConcatText(textOld)

\* C4: a call on nodes of different types throws before anything is processed
\* and returns no tree; a call on nodes of the same type does not throw.
C4_TypeMismatch ==
  /\ pc = "thrown" =>
       /\ oldNode.type # newNode.type
       /\ result = NoResult /\ pdn = NoPatch /\ pending = <<>> /\ rem = NoCall
  /\ pc \in {"remain", "done"} => oldNode.type = newNode.type
  /\ pc = "done" => result.type = oldNode.type

C4_Witness == pc = "thrown" /\ oldNode.type = "heading" /\ newNode.type = "paragraph"

\* C5: Scenario B: the output keeps "The cat sat." unmarked, marks only
\* "It purred." Inserted, and marks no leaf Deleted.
C5_ScenarioB ==
  (pc = "done" /\ oldNode = ScenarioBOld /\ newNode = ScenarioBNew) =>
    /\ \A i \in 1..Len(Leaves(result)) : ~HasDiffMark(Leaves(result)[i], Deleted)
    /\ TextUnmarked(Leaves(result)) \in {TheCatSat, TheCatSat \o <<" ">>}
    /\ TextWith(Leaves(result), Inserted) = ItPurred

\* Scenario D: doc[A, B, C] against doc[A, X, C], four different paragraphs
ScenarioD ==
  /\ oldNode.type = "doc" /\ newNode.type = "doc"
  /\ Len(oldNode.content) = 3 /\ Len(newNode.content) = 3
  /\ \A i \in 1..3 : oldNode.content[i].type = "paragraph"
                     /\ newNode.content[i].type = "paragraph"
  /\ oldNode.content[1] = newNode.content[1] /\ oldNode.content[3] = newNode.content[3]
  /\ Cardinality({oldNode.content[1], oldNode.content[2], oldNode.content[3],
                  newNode.content[2]}) = 4

\* C6 as stated: in Scenario D the output is A, then paragraph B as a Deleted
\* node, then paragraph X as an Inserted node, then C.
C6_DeleteInsertPair ==
  (pc = "done" /\ ScenarioD) =>
    /\ Len(result.content) = 4
    /\ result.content[1] = oldNode.content[1]
    /\ Annotated(oldNode.content[2], result.content[2], Deleted)
    /\ Annotated(newNode.content[2], result.content[3], Inserted)
    /\ result.content[4] = oldNode.content[3]

\* C6 amended: in Scenario D the output has three children: A unmarked, one
\* paragraph holding B's sentence marked Deleted followed by X's sentence
\* marked Inserted, and C unmarked.
C6_PatchedInPlace ==
  (pc = "done" /\ ScenarioD) =>
    /\ Len(result.content) = 3
    /\ result.content[1] = oldNode.content[1]
    /\ result.content[3] = oldNode.content[3]
    /\ result.content[2] =
         Paragraph(<<Text(AllText(oldNode.content[2]), <<DiffMarkOf(Deleted)>>),
                     Text(AllText(newNode.content[2]), <<DiffMarkOf(Inserted)>>)>>)

C6_Witness == pc = "done" /\ ScenarioD /\ Len(result.content) = 3

\* the new node's children are the old node's children with one child removed
OneRemoved ==
  /\ oldNode.type = newNode.type
  /\ \E j \in 1..Len(oldNode.content) : RemoveAt(oldNode.content, j) = newNode.content

\* the output is the old children in order, one of them that equals the
\* removed child marked Deleted on every text leaf, the others as they were
RemovedOutcome ==
  \E j, k \in 1..Len(oldNode.content) :
    /\ RemoveAt(oldNode.content, j) = newNode.content
    /\ oldNode.content[k] = oldNode.content[j]
    /\ Len(result.content) = Len(oldNode.content)
    /\ Annotated(oldNode.content[k], result.content[k], Deleted)
    /\ \A i \in 1..Len(oldNode.content) :
         i # k => result.content[i] = oldNode.content[i]

\* C7: whenever the new children are the old children with one child removed,
\* the output is the old children in order, the removed child marked Deleted
\* on every text leaf and every other child as it was.
C7_OneRemoved == (pc = "done" /\ OneRemoved) => RemovedOutcome

\* C8: createDiffNode returns the node with the same shape, every text leaf
\* keeping its marks and gaining exactly one diff mark of the given
\* annotation, and no other node gaining a mark.
C8_Annotator == pc = "annotated" => Annotated(annNode, annRes, annType)

C8_Witness ==
  /\ pc = "annotated"
  /\ annNode.type = "paragraph" /\ Len(annNode.content) = 3
  /\ \E i \in 1..Len(Leaves(annNode)) : Len(Leaves(annNode)[i].marks) = 2

\* C9: in an iteration of patchRemainNodes the pair taken as the update is a
\* pair of single non-text nodes of the same type, never a pair with a
\* text-run group in it.
C9_OnlyNodesUpdated ==
  (pc = "remain" /\ RemainGuard(rem) /\ ~BothArrays(rem)) =>
    /\ UpdateLeft(rem) => SinglesOfSameType(leftOldNode(rem), leftNewNode(rem))
    /\ (~UpdateLeft(rem) /\ UpdateRight(rem)) =>
         SinglesOfSameType(rightOldNode(rem), rightNewNode(rem))

\* what is left to do: the calls still to make, then the units still to walk
Measure ==
  LET k == Len(oldNode.content) + Len(newNode.content) + 1
  IN CASE pc = "start" -> 3 * k
       [] pc = "remain" ->
            Len(pending) * k
              + Min(Len(rem.oldChildren), Len(rem.newChildren)) - rem.left - rem.right
       [] OTHER -> 0

\* C10: every iteration of the loop advances exactly one pointer by one and
\* left + right never passes min(oldLen, newLen); when both pairs are
\* updatable the scores are both 0 and the left pair is patched, the right
\* pointer staying; and every step of the call brings it closer to its end.
C10_Progress ==
  [][/\ (pc = "remain" /\ RemainGuard(rem)) =>
          /\ \/ rem'.left = rem.left + 1 /\ rem'.right = rem.right
             \/ rem'.left = rem.left /\ rem'.right = rem.right + 1
          /\ rem'.left + rem'.right <= Min(Len(rem.oldChildren), Len(rem.newChildren))
          /\ rem'.oldChildren = rem.oldChildren /\ rem'.newChildren = rem.newChildren
          /\ (~BothArrays(rem) /\ UpdateLeft0(rem) /\ UpdateRight0(rem)) =>
               /\ computeChildEqualityFactor(leftOldNode(rem), leftNewNode(rem)) = 0
               /\ computeChildEqualityFactor(rightOldNode(rem), rightNewNode(rem)) = 0
               /\ rem'.left = rem.left + 1 /\ rem'.right = rem.right
               /\ Len(rem'.finalLeftChildren) = Len(rem.finalLeftChildren) + 1
               /\ rem'.finalRightChildren = rem.finalRightChildren
     /\ Measure' < Measure
     /\ Measure' >= 0]_vars

\* both pairs were updatable, at different positions, and the left one was patched
C10_Witness ==
  /\ pc = "remain" /\ rem.left = 1 /\ rem.right = 0
  /\ Len(rem.oldChildren) >= 2 /\ Len(rem.newChildren) >= 2
  /\ SinglesOfSameType(rem.oldChildren[1], rem.newChildren[1])
  /\ SinglesOfSameType(rem.oldChildren[Len(rem.oldChildren)],
                       rem.newChildren[Len(rem.newChildren)])
  /\ Len(rem.finalLeftChildren) = 1

\* the runs matchNodes collected for the running call, and the slices it ran on
MatchSet == {pdn.matchedNodes[i] : i \in 1..Len(pdn.matchedNodes)}

WellFormedMatch(m) ==
  LET old == pdn.diffOldChildren
      new == pdn.diffNewChildren
  IN /\ 0 <= m.oldStartIndex /\ m.oldStartIndex < m.oldEndIndex
     /\ m.oldEndIndex <= Len(old)
     /\ 0 <= m.newStartIndex /\ m.newStartIndex < m.newEndIndex
     /\ m.newEndIndex <= Len(new)
     /\ m.count = m.oldEndIndex - m.oldStartIndex
     /\ m.count = m.newEndIndex - m.newStartIndex
     /\ m.count >= 1
     /\ \A k \in 0..(m.count - 1) :
          old[m.oldStartIndex + k + 1] = new[m.newStartIndex + k + 1]
     /\ \A j \in 0..(m.newStartIndex - 1) : new[j + 1] # old[m.oldStartIndex + 1]

\* the run with the greatest count, the smallest oldStartIndex among equals
IsAnchor(a) ==
  /\ a \in MatchSet
  /\ \A m \in MatchSet :
       \/ m.count < a.count
       \/ m.count = a.count /\ a.oldStartIndex <= m.oldStartIndex

\* C11: every run matchNodes produces lies within the two lists, has
\* count = oldEndIndex - oldStartIndex = newEndIndex - newStartIndex >= 1,
\* pairs equal units, and starts at the first position of the new list that
\* equals its first old unit; patchDocumentNode splits the lists around the
\* run of greatest count, the one found first among runs of equal count.
C11_BestRun ==
  pc \in {"remain", "done"} =>
    /\ \A m \in MatchSet : WellFormedMatch(m)
    /\ Cardinality(MatchSet) = Len(pdn.matchedNodes)
    /\ pdn.matchedNodes # <<>> => IsAnchor(pdn.matchedNodes[1])
    /\ (pc = "remain" /\ Len(pending) = 2) =>
         \E a \in MatchSet :
           /\ IsAnchor(a)
           /\ pending[1].oldChildren = Slice(pdn.diffOldChildren, 0, a.oldStartIndex)
           /\ pending[1].newChildren = Slice(pdn.diffNewChildren, 0, a.newStartIndex)
           /\ pending[1].matched =
                FlatUnits(Slice(pdn.diffOldChildren, a.oldStartIndex, a.oldEndIndex))
           /\ pending[2].oldChildren =
                Slice(pdn.diffOldChildren, a.oldEndIndex, Len(pdn.diffOldChildren))
           /\ pending[2].newChildren =
                Slice(pdn.diffNewChildren, a.newEndIndex, Len(pdn.diffNewChildren))
    /\ (pc = "remain" /\ pdn.matchedNodes # <<>>) => Len(pending) \in {1, 2}
    /\ (pdn.matchedNodes = <<>> /\ pc = "remain") => Len(pending) = 1

\* two runs of equal count compete, and the new list repeats the unit a run
\* starts with
C11_Witness ==
  /\ pc = "remain" /\ Len(pending) = 2
  /\ Len(pdn.matchedNodes) >= 2
  /\ pdn.matchedNodes[1].count = pdn.matchedNodes[2].count
  /\ \E m \in MatchSet :
       \E j \in (m.newStartIndex + 1)..(Len(pdn.diffNewChildren) - 1) :
         pdn.diffNewChildren[j + 1] = pdn.diffOldChildren[m.oldStartIndex + 1]

\* what the two trim loops of the running call took off each end
MinChildLen == Min(Len(pdn.oldChildren), Len(pdn.newChildren))
TrimmedPrefix == FlatUnits(Slice(pdn.oldChildren, 0, pdn.left))
TrimmedSuffix ==
  FlatUnits(Slice(pdn.oldChildren, Len(pdn.oldChildren) - pdn.right, Len(pdn.oldChildren)))

\* the trimmed units are equal on both sides, do not overlap, and come out
\* once each, unmarked, at the two ends of the returned node
TrimmedOnce ==
  /\ pdn.left + pdn.right <= MinChildLen
  /\ \A i \in 1..pdn.left : pdn.oldChildren[i] = pdn.newChildren[i]
  /\ \A i \in 0..(pdn.right - 1) :
       pdn.oldChildren[Len(pdn.oldChildren) - i] = pdn.newChildren[Len(pdn.newChildren) - i]
  /\ pdn.diffOldChildren =
       Slice(pdn.oldChildren, pdn.left, Len(pdn.oldChildren) - pdn.right)
  /\ pdn.diffNewChildren =
       Slice(pdn.newChildren, pdn.left, Len(pdn.newChildren) - pdn.right)
  /\ pc = "done" =>
       /\ Len(result.content) >= Len(TrimmedPrefix) + Len(TrimmedSuffix)
       /\ SubSeq(result.content, 1, Len(TrimmedPrefix)) = TrimmedPrefix
       /\ SubSeq(result.content, Len(result.content) - Len(TrimmedSuffix) + 1,
                 Len(result.content)) = TrimmedSuffix

\* C12 as stated: after both trim loops left + right <= min(oldLen, newLen),
\* every trimmed unit is emitted exactly once, and at least one unit remains
\* in the middle slice of each side.
C12_MiddleNeverEmpty ==
  pc \in {"remain", "done"} =>
    /\ TrimmedOnce
    /\ pdn.diffOldChildren # <<>> /\ pdn.diffNewChildren # <<>>

\* C12 amended: after both trim loops left + right <= min(oldLen, newLen) and
\* every trimmed unit is emitted exactly once; the suffix trim always leaves
\* one unit of the shorter list, so both middle slices are non-empty unless
\* the prefix trim consumed the whole shorter list, and then right = 0 and
\* the shorter side's middle slice is empty.
C12_TrimNoOverlap ==
  pc \in {"remain", "done"} =>
    /\ TrimmedOnce
    /\ pdn.left < MinChildLen =>
         /\ pdn.left + pdn.right < MinChildLen
         /\ pdn.diffOldChildren # <<>> /\ pdn.diffNewChildren # <<>>
    /\ pdn.left = MinChildLen =>
         /\ pdn.right = 0
         /\ pdn.diffOldChildren = <<>> \/ pdn.diffNewChildren = <<>>

\* the suffix loop trimmed something and stopped at its bound with an equal
\* pair still ahead of it, and the call returned
C12_Witness ==
  /\ pc = "done"
  /\ pdn.right >= 1
  /\ pdn.left + pdn.right + 1 = MinChildLen
  /\ pdn.diffOldChildren[Len(pdn.diffOldChildren)]
       = pdn.diffNewChildren[Len(pdn.diffNewChildren)]

====
